---- MODULE Spec2Model ----
(***************************************************************************)
(* Model of savitri_app/analyze_coverage.py: analyze_lcov_file reads an    *)
(* LCOV file line by line into files_coverage, sums the per-file counts    *)
(* and prints the coverage report.                                          *)
(*                                                                          *)
(* Text is modelled as a sequence of one-character strings, so that        *)
(* strip(), startswith(), slicing, split(',') and int() are computed on    *)
(* the characters as Python computes them.  A path is such a sequence;     *)
(* sorted() compares paths by code point as Python compares str.           *)
(***************************************************************************)
EXTENDS Integers, Sequences, FiniteSets, TLC

\* ------------------------------------------------------------------ bounds
\* Number of lines of the input file.
MaxLines == 4

\* ------------------------------------------------------------- characters
Digits == {"0", "1", "2", "3", "4", "5", "6", "7", "8", "9"}

\* str.strip() with no argument removes these (ASCII whitespace).
Whitespace == {" ", "\t", "\n", "\r"}

\* int() of a decimal digit.
DigitVal(c) ==
    CASE c = "0" -> 0 [] c = "1" -> 1 [] c = "2" -> 2 [] c = "3" -> 3
      [] c = "4" -> 4 [] c = "5" -> 5 [] c = "6" -> 6 [] c = "7" -> 7
      [] c = "8" -> 8 [] c = "9" -> 9

\* Code point of a character (the characters the input files are made of).
Ord(c) ==
    CASE c = "\t" -> 9 [] c = "\n" -> 10 [] c = "\r" -> 13 [] c = " " -> 32
      [] c = "+" -> 43 [] c = "," -> 44 [] c = "-" -> 45 [] c = "." -> 46
      [] c = "/" -> 47 [] c \in Digits -> 48 + DigitVal(c)
      [] c = ":" -> 58
      [] c = "A" -> 65 [] c = "D" -> 68 [] c = "F" -> 70 [] c = "H" -> 72
      [] c = "L" -> 76 [] c = "S" -> 83 [] c = "_" -> 95
      [] c = "a" -> 97 [] c = "b" -> 98 [] c = "c" -> 99 [] c = "d" -> 100
      [] c = "e" -> 101 [] c = "f" -> 102 [] c = "n" -> 110 [] c = "o" -> 111
      [] c = "p" -> 112 [] c = "r" -> 114 [] c = "x" -> 120 [] c = "y" -> 121

\* --------------------------------------------------------- str operations
\* s[n:]
Drop(s, n) == IF n >= Len(s) THEN << >> ELSE SubSeq(s, n + 1, Len(s))

RECURSIVE LStrip(_)
LStrip(s) ==
    IF s # << >> /\ Head(s) \in Whitespace THEN LStrip(Tail(s)) ELSE s

RECURSIVE RStrip(_)
RStrip(s) ==
    IF s # << >> /\ s[Len(s)] \in Whitespace
    THEN RStrip(SubSeq(s, 1, Len(s) - 1))
    ELSE s

\* line.strip()
Strip(s) == RStrip(LStrip(s))

\* line.startswith(prefix)
StartsWith(s, prefix) ==
    Len(s) >= Len(prefix) /\ SubSeq(s, 1, Len(prefix)) = prefix

\* s.split(','): the fields between the commas (always at least one field).
RECURSIVE SplitFrom(_, _, _)
SplitFrom(s, i, cur) ==
    IF i > Len(s) THEN << cur >>
    ELSE IF s[i] = "," THEN << cur >> \o SplitFrom(s, i + 1, << >>)
    ELSE SplitFrom(s, i + 1, Append(cur, s[i]))

Split(s) == SplitFrom(s, 1, << >>)

\* ------------------------------------------------------------------ int()
\* The digits of an int() literal: non-empty, digits with single
\* underscores allowed between two digits.
RECURSIVE DigitsOk(_, _)
DigitsOk(s, i) ==
    IF i > Len(s) THEN TRUE
    ELSE IF s[i] \in Digits THEN DigitsOk(s, i + 1)
    ELSE s[i] = "_" /\ i > 1 /\ i < Len(s)
         /\ s[i - 1] \in Digits /\ s[i + 1] \in Digits
         /\ DigitsOk(s, i + 1)

RECURSIVE DigitsValue(_, _, _)
DigitsValue(s, i, acc) ==
    IF i > Len(s) THEN acc
    ELSE IF s[i] = "_" THEN DigitsValue(s, i + 1, acc)
    ELSE DigitsValue(s, i + 1, 10 * acc + DigitVal(s[i]))

\* The text after int() has removed surrounding whitespace and the sign.
IntBody(s) ==
    LET t == Strip(s)
    IN  IF t # << >> /\ Head(t) \in {"+", "-"} THEN Tail(t) ELSE t

\* TRUE iff int(s) returns; otherwise int(s) raises ValueError.
IsInt(s) == IntBody(s) # << >> /\ DigitsOk(IntBody(s), 1)

\* int(s), for IsInt(s).
ParseInt(s) ==
    LET t == Strip(s)
        v == DigitsValue(IntBody(s), 1, 0)
    IN  IF Head(t) = "-" THEN 0 - v ELSE v

\* ------------------------------------------------------- sorted(), totals
\* Python's str "<": lexicographic by code point, a proper prefix is smaller.
RECURSIVE LexLess(_, _)
LexLess(a, b) ==
    IF b = << >> THEN FALSE
    ELSE IF a = << >> THEN TRUE
    ELSE IF Head(a) = Head(b) THEN LexLess(Tail(a), Tail(b))
    ELSE Ord(Head(a)) < Ord(Head(b))

\* Insert key k into the ascending sequence s.
RECURSIVE Insert(_, _)
Insert(k, s) ==
    IF s = << >> THEN << k >>
    ELSE IF LexLess(k, Head(s)) THEN << k >> \o s
    ELSE << Head(s) >> \o Insert(k, Tail(s))

\* A sequence of keys in the order the dict iterates them, unsorted.
SortedInsertionOrder(keys) == keys

\* sorted(files_coverage.keys()), keys given in the dict's iteration order.
RECURSIVE Sorted(_)
Sorted(keys) ==
    IF keys = << >> THEN << >>
    ELSE Insert(Head(keys), Sorted(Tail(keys)))

\* sum(f['lines_found'] for f in files_coverage.values())
RECURSIVE SumFound(_, _)
SumFound(fc, keys) ==
    IF keys = << >> THEN 0
    ELSE fc[Head(keys)].lines_found + SumFound(fc, Tail(keys))

\* Sum of the lines_hit of the listed entries only.
RECURSIVE SumHitListed(_, _)
SumHitListed(fc, keys) ==
    IF keys = << >> THEN 0
    ELSE (IF fc[Head(keys)].lines_found > 0 THEN fc[Head(keys)].lines_hit ELSE 0)
         + SumHitListed(fc, Tail(keys))

\* sum(f['lines_hit'] for f in files_coverage.values())
RECURSIVE SumHit(_, _)
SumHit(fc, keys) ==
    IF keys = << >> THEN 0
    ELSE fc[Head(keys)].lines_hit + SumHit(fc, Tail(keys))

\* f"{(hit / found) * 100:.1f}" for found > 0, as a number of tenths
\* (667 is the text 66.7): the quotient rounded to one decimal, a tie to
\* the even tenth.
Pct(hit, found) ==
    LET n == 1000 * hit
        q == n \div found
        r == n % found
    IN  IF 2 * r > found THEN q + 1
        ELSE IF 2 * r < found THEN q
        ELSE IF q % 2 = 0 THEN q ELSE q + 1

\* ---------------------------------------------------------- output lines
\* "=" * n
RECURSIVE Repeat(_, _)
Repeat(s, n) == IF n = 0 THEN "" ELSE s \o Repeat(s, n - 1)

SeparatorWidth == 80

TextLine(t) == [kind |-> "text", text |-> t]

TitleLine == TextLine("Test Coverage Report")

SeparatorLine == TextLine(Repeat("=", SeparatorWidth))

\* print(f"{file_path}")
PathLine(path) == [kind |-> "path", path |-> path]

\* print(f"  Lines: {hit}/{found} ({coverage:.1f}%)")
LinesLine(hit, found) ==
    [kind |-> "lines", hit |-> hit, found |-> found, pct |-> Pct(hit, found)]

\* print(f"Total Coverage: {hit}/{found} lines ({total_coverage:.1f}%)")
TotalLine(hit, found) ==
    [kind |-> "total", hit |-> hit, found |-> found, pct |-> Pct(hit, found)]

NoDataLine == TextLine("No coverage data found")

\* The last line decided on total_lines_hit instead of total_lines_found.
FinalLineOnHit(found, hit) ==
    IF hit > 0 THEN TotalLine(hit, IF found > 0 THEN found ELSE 1)
    ELSE NoDataLine

\* The if/else that ends the report.
FinalLine(found, hit) ==
    IF found > 0 THEN TotalLine(hit, found) ELSE NoDataLine

\* ------------------------------------------------------------ input file
\* The lines a modelled input file is made of, each as "for line in f"
\* yields it (with its line terminator).
Lines ==
    { << "S", "F", ":", "b", "\n" >>,
      << "S", "F", ":", "a", "\n" >>,
      << " ", "S", "F", ":", "a", "b", "\n" >>,
      << "D", "A", ":", "1", ",", "2", "\n" >>,
      << "D", "A", ":", "2", ",", "0", ",", "x", "\n" >>,
      << "D", "A", ":", "3", "\n" >>,
      << "D", "A", ":", "4", ",", "x", "\n" >>,
      << "L", "F", ":", "2", "\n" >>,
      << "L", "F", ":", "x", "\n" >>,
      << "L", "H", ":", "1", "\n" >>,
      << "L", "H", ":", "-", "1", "\n" >>,
      << "e", "n", "d", "\n" >> }

RECURSIVE SeqsUpTo(_)
SeqsUpTo(n) ==
    IF n = 0 THEN { << >> }
    ELSE LET shorter == SeqsUpTo(n - 1)
         IN  shorter \cup { Append(s, l) : s \in { t \in shorter : Len(t) = n - 1 }, l \in Lines }

\* The contents of the input file, as a sequence of lines.
Inputs == SeqsUpTo(MaxLines)

\* The prefixes the parser dispatches on.
PrefixSF == << "S", "F", ":" >>
PrefixDA == << "D", "A", ":" >>
PrefixLF == << "L", "F", ":" >>
PrefixLH == << "L", "H", ":" >>

\* current_file = None
None == << "None" >>

\* {'lines_found': 0, 'lines_hit': 0}
NewEntry == [lines_found |-> 0, lines_hit |-> 0]

\* ------------------------------------------------------------------ state
VARIABLES
    file_exists,        \* whether open(filename, 'r') succeeds
    input,              \* the lines of the file
    pos,                \* index of the next line the for loop reads
    files_coverage,     \* dict: path -> [lines_found, lines_hit]
    key_order,          \* the dict's keys in insertion (iteration) order
    current_file,       \* path of the open file block, or None
    total_lines_found,
    total_lines_hit,
    sorted_keys,        \* the list the rendering loop iterates
    render_idx,         \* index of the rendering loop's next key
    output,             \* the lines printed so far
    error,              \* the exception that ended the run, or "none"
    pc                  \* "start", "parse", "header", "files", "done", "aborted"

vars == << file_exists, input, pos, files_coverage, key_order, current_file,
           total_lines_found, total_lines_hit, sorted_keys, render_idx,
           output, error, pc >>

\* The empty dict.
EmptyDict == [p \in {} |-> NewEntry]

Init ==
    /\ file_exists \in BOOLEAN
    /\ input \in (IF file_exists THEN Inputs ELSE { << >> })
    /\ pos = 1
    /\ files_coverage = EmptyDict
    /\ key_order = << >>
    /\ current_file = None
    /\ total_lines_found = 0
    /\ total_lines_hit = 0
    /\ sorted_keys = << >>
    /\ render_idx = 1
    /\ output = << >>
    /\ error = "none"
    /\ pc = "start"

\* ------------------------------------------------------ the line handlers
\* Each handler is given as the outcome of processing one stripped line:
\* the exception it raises ("none" if it returns) and the dict it leaves.

\* An SF: record that keeps the counts of an entry that already exists.
SFStepMerge(fc, order, line) ==
    LET path == Drop(line, 3)
    IN  [fc    |-> [p \in DOMAIN fc \cup {path} |->
                       IF p \in DOMAIN fc THEN fc[p] ELSE NewEntry],
         order |-> IF path \in DOMAIN fc THEN order ELSE Append(order, path),
         cur   |-> path]

\* current_file = line[3:]; files_coverage[current_file] = {0, 0}
\* (assigning to an existing key keeps the key's place in the dict).
SFStep(fc, order, line) ==
    LET path == Drop(line, 3)
    IN  [fc    |-> [p \in DOMAIN fc \cup {path} |->
                       IF p = path THEN NewEntry ELSE fc[p]],
         order |-> IF path \in DOMAIN fc THEN order ELSE Append(order, path),
         cur   |-> path]

\* A DA: record that is skipped when no file is open.
DAStepSkipNoFile(fc, cur, line) ==
    LET parts == Split(Drop(line, 3))
    IN  IF Len(parts) < 2 THEN [error |-> "none", fc |-> fc]
        ELSE IF ~IsInt(parts[2]) THEN [error |-> "ValueError", fc |-> fc]
        ELSE IF cur \notin DOMAIN fc THEN [error |-> "none", fc |-> fc]
        ELSE LET hit_count == ParseInt(parts[2])
             IN  [error |-> "none",
                  fc |-> [fc EXCEPT ![cur] =
                            [lines_found |-> @.lines_found + 1,
                             lines_hit   |-> IF hit_count > 0
                                             THEN @.lines_hit + 1
                                             ELSE @.lines_hit]]]

\* A DA: record that adds the hit count to lines_hit.
DAStepAddCount(fc, cur, line) ==
    LET parts == Split(Drop(line, 3))
    IN  IF Len(parts) < 2 THEN [error |-> "none", fc |-> fc]
        ELSE IF ~IsInt(parts[2]) THEN [error |-> "ValueError", fc |-> fc]
        ELSE IF cur \notin DOMAIN fc THEN [error |-> "KeyError", fc |-> fc]
        ELSE LET hit_count == ParseInt(parts[2])
             IN  [error |-> "none",
                  fc |-> [fc EXCEPT ![cur] =
                            [lines_found |-> @.lines_found + 1,
                             lines_hit   |-> @.lines_hit + hit_count]]]

\* parts = line[3:].split(','); if len(parts) >= 2: hit_count = int(parts[1]);
\* lines_found += 1; if hit_count > 0: lines_hit += 1
DAStep(fc, cur, line) ==
    LET parts == Split(Drop(line, 3))
    IN  IF Len(parts) < 2 THEN [error |-> "none", fc |-> fc]
        ELSE IF ~IsInt(parts[2]) THEN [error |-> "ValueError", fc |-> fc]
        ELSE IF cur \notin DOMAIN fc THEN [error |-> "KeyError", fc |-> fc]
        ELSE LET hit_count == ParseInt(parts[2])
             IN  [error |-> "none",
                  fc |-> [fc EXCEPT ![cur] =
                            [lines_found |-> @.lines_found + 1,
                             lines_hit   |-> IF hit_count > 0
                                             THEN @.lines_hit + 1
                                             ELSE @.lines_hit]]]

\* An LF: record that adds to the accumulated count.
LFStepAdd(fc, cur, line) ==
    IF ~IsInt(Drop(line, 3)) THEN [error |-> "ValueError", fc |-> fc]
    ELSE IF cur \notin DOMAIN fc THEN [error |-> "KeyError", fc |-> fc]
    ELSE [error |-> "none",
          fc |-> [fc EXCEPT ![cur].lines_found = @ + ParseInt(Drop(line, 3))]]

\* files_coverage[current_file]['lines_found'] = int(line[3:])
\* (the right-hand side is evaluated before the subscripts).
LFStep(fc, cur, line) ==
    IF ~IsInt(Drop(line, 3)) THEN [error |-> "ValueError", fc |-> fc]
    ELSE IF cur \notin DOMAIN fc THEN [error |-> "KeyError", fc |-> fc]
    ELSE [error |-> "none",
          fc |-> [fc EXCEPT ![cur].lines_found = ParseInt(Drop(line, 3))]]

\* files_coverage[current_file]['lines_hit'] = int(line[3:])
LHStep(fc, cur, line) ==
    IF ~IsInt(Drop(line, 3)) THEN [error |-> "ValueError", fc |-> fc]
    ELSE IF cur \notin DOMAIN fc THEN [error |-> "KeyError", fc |-> fc]
    ELSE [error |-> "none",
          fc |-> [fc EXCEPT ![cur].lines_hit = ParseInt(Drop(line, 3))]]

\* ---------------------------------------------------------------- actions
\* line = line.strip(), for the line the loop is at.
CurLine == Strip(input[pos])

Parsing == pc = "parse" /\ pos <= Len(input)

\* The run ends with exception e at the current line.
Abort(e) ==
    /\ pc' = "aborted"
    /\ error' = e
    /\ UNCHANGED << file_exists, input, pos, files_coverage, key_order,
                    current_file, total_lines_found, total_lines_hit,
                    sorted_keys, render_idx, output >>

\* The handler returned with dict fc: the loop goes to the next line.
Continue(fc) ==
    /\ files_coverage' = fc
    /\ pos' = pos + 1
    /\ UNCHANGED << file_exists, input, key_order, current_file,
                    total_lines_found, total_lines_hit, sorted_keys,
                    render_idx, output, error, pc >>

\* The outcome r of a DA:, LF: or LH: handler.
Handle(r) == IF r.error = "none" THEN Continue(r.fc) ELSE Abort(r.error)

\* open() that prints the title before the file is opened.
OpenPrintsTitle ==
    /\ pc = "start"
    /\ output' = Append(output, TitleLine)
    /\ IF file_exists
       THEN pc' = "parse" /\ error' = error
       ELSE pc' = "aborted" /\ error' = "FileNotFoundError"
    /\ UNCHANGED << file_exists, input, pos, files_coverage, key_order,
                    current_file, total_lines_found, total_lines_hit,
                    sorted_keys, render_idx >>

\* with open(filename, 'r') as f
Open ==
    /\ pc = "start"
    /\ IF file_exists
       THEN pc' = "parse" /\ error' = error
       ELSE pc' = "aborted" /\ error' = "FileNotFoundError"
    /\ UNCHANGED << file_exists, input, pos, files_coverage, key_order,
                    current_file, total_lines_found, total_lines_hit,
                    sorted_keys, render_idx, output >>

\* if line.startswith('SF:')
ParseSF ==
    /\ Parsing
    /\ StartsWith(CurLine, PrefixSF)
    /\ LET r == SFStep(files_coverage, key_order, CurLine)
       IN  /\ files_coverage' = r.fc
           /\ key_order' = r.order
           /\ current_file' = r.cur
    /\ pos' = pos + 1
    /\ UNCHANGED << file_exists, input, total_lines_found, total_lines_hit,
                    sorted_keys, render_idx, output, error, pc >>

\* elif line.startswith('DA:')
ParseDA ==
    /\ Parsing
    /\ ~StartsWith(CurLine, PrefixSF)
    /\ StartsWith(CurLine, PrefixDA)
    /\ Handle(DAStep(files_coverage, current_file, CurLine))

\* elif line.startswith('LF:')
ParseLF ==
    /\ Parsing
    /\ ~StartsWith(CurLine, PrefixSF)
    /\ ~StartsWith(CurLine, PrefixDA)
    /\ StartsWith(CurLine, PrefixLF)
    /\ Handle(LFStep(files_coverage, current_file, CurLine))

\* elif line.startswith('LH:')
ParseLH ==
    /\ Parsing
    /\ ~StartsWith(CurLine, PrefixSF)
    /\ ~StartsWith(CurLine, PrefixDA)
    /\ ~StartsWith(CurLine, PrefixLF)
    /\ StartsWith(CurLine, PrefixLH)
    /\ Handle(LHStep(files_coverage, current_file, CurLine))

\* A line that matches no branch of the if/elif chain.
ParseOther ==
    /\ Parsing
    /\ ~StartsWith(CurLine, PrefixSF)
    /\ ~StartsWith(CurLine, PrefixDA)
    /\ ~StartsWith(CurLine, PrefixLF)
    /\ ~StartsWith(CurLine, PrefixLH)
    /\ Continue(files_coverage)

\* End of the for loop and of the with block; the two sums.
Aggregate ==
    /\ pc = "parse"
    /\ pos > Len(input)
    /\ total_lines_found' = SumFound(files_coverage, key_order)
    /\ total_lines_hit' = SumHit(files_coverage, key_order)
    /\ pc' = "header"
    /\ UNCHANGED << file_exists, input, pos, files_coverage, key_order,
                    current_file, sorted_keys, render_idx, output, error >>

\* The title, the first separator, and the sorted key list of the loop.
PrintHeader ==
    /\ pc = "header"
    /\ output' = output \o << TitleLine, SeparatorLine >>
    /\ sorted_keys' = Sorted(key_order)
    /\ render_idx' = 1
    /\ pc' = "files"
    /\ UNCHANGED << file_exists, input, pos, files_coverage, key_order,
                    current_file, total_lines_found, total_lines_hit, error >>

\* One iteration of "for file_path in sorted(...)".
RenderFile ==
    /\ pc = "files"
    /\ render_idx <= Len(sorted_keys)
    /\ LET file_path == sorted_keys[render_idx]
           data == files_coverage[file_path]
       IN  output' = IF data.lines_found > 0
                     THEN output \o << PathLine(file_path),
                                       LinesLine(data.lines_hit, data.lines_found) >>
                     ELSE output
    /\ render_idx' = render_idx + 1
    /\ UNCHANGED << file_exists, input, pos, files_coverage, key_order,
                    current_file, total_lines_found, total_lines_hit,
                    sorted_keys, error, pc >>

\* The closing separator and the last line.
PrintFooter ==
    /\ pc = "files"
    /\ render_idx > Len(sorted_keys)
    /\ output' = output \o << SeparatorLine,
                              FinalLine(total_lines_found, total_lines_hit) >>
    /\ pc' = "done"
    /\ UNCHANGED << file_exists, input, pos, files_coverage, key_order,
                    current_file, total_lines_found, total_lines_hit,
                    sorted_keys, render_idx, error >>

Next ==
    \/ Open
    \/ ParseSF
    \/ ParseDA
    \/ ParseLF
    \/ ParseLH
    \/ ParseOther
    \/ Aggregate
    \/ PrintHeader
    \/ RenderFile
    \/ PrintFooter

Spec == Init /\ [][Next]_vars

TypeOK ==
    /\ pc \in {"start", "parse", "header", "files", "done", "aborted"}
    /\ error \in {"none", "FileNotFoundError", "ValueError", "KeyError"}
    /\ pos \in 1..(Len(input) + 1)
    /\ DOMAIN files_coverage = { key_order[i] : i \in 1..Len(key_order) }
    /\ current_file = None \/ current_file \in DOMAIN files_coverage

\* ============================================================ properties
\* Record kinds, as the if/elif chain classifies a raw line.
IsSF(l) == StartsWith(Strip(l), PrefixSF)
IsDA(l) == ~IsSF(l) /\ StartsWith(Strip(l), PrefixDA)
IsLF(l) == ~IsSF(l) /\ ~IsDA(l) /\ StartsWith(Strip(l), PrefixLF)
IsLH(l) == ~IsSF(l) /\ ~IsDA(l) /\ ~IsLF(l) /\ StartsWith(Strip(l), PrefixLH)

\* The fields of a DA: record and the text after the prefix of any record.
FieldsOf(l) == Split(Drop(Strip(l), 3))
ValueOf(l) == Drop(Strip(l), 3)

\* A DA: record with at least 2 fields / whose hit count is positive.
IsCountedDA(l) == IsDA(l) /\ Len(FieldsOf(l)) >= 2
IsHitDA(l) ==
    IsCountedDA(l) /\ IsInt(FieldsOf(l)[2]) /\ ParseInt(FieldsOf(l)[2]) > 0

Max(S) == CHOOSE m \in S : \A x \in S : x <= m

\* Index of the SF: record that opened the block the parser is in, 0 if none.
BlockStart == Max({0} \cup { i \in 1..(pos - 1) : IsSF(input[i]) })

\* Index of the last LF: (LH:) record processed in the current block, 0 if none.
LastLF == Max({0} \cup { i \in (BlockStart + 1)..(pos - 1) : IsLF(input[i]) })
LastLH == Max({0} \cup { i \in (BlockStart + 1)..(pos - 1) : IsLH(input[i]) })

\* The parser stands at the end of a file block: the block was opened by an
\* SF: record and the next record is an SF: record or the end of the input.
AtBlockEnd ==
    /\ pc = "parse"
    /\ BlockStart > 0
    /\ pos > Len(input) \/ IsSF(input[pos])

\* C1 (as stated): at the end of a block that contains an LF: record,
\* lines_found is the integer of the block's last LF: record, wherever the
\* DA: records stand; likewise lines_hit and the last LH: record.
C1_LastSummaryWins ==
    AtBlockEnd =>
        /\ LastLF > 0 =>
             files_coverage[current_file].lines_found = ParseInt(ValueOf(input[LastLF]))
        /\ LastLH > 0 =>
             files_coverage[current_file].lines_hit = ParseInt(ValueOf(input[LastLH]))

\* C1 (amended): at the end of a block that contains an LF: record,
\* lines_found is the integer of the block's last LF: record plus the number
\* of DA: records with at least 2 fields that follow it in the block;
\* lines_hit is the integer of the last LH: record plus the number of DA:
\* records with a positive hit count that follow it.
C1_SummaryPlusLaterDA ==
    AtBlockEnd =>
        /\ LastLF > 0 =>
             files_coverage[current_file].lines_found =
                 ParseInt(ValueOf(input[LastLF]))
                 + Cardinality({ i \in (LastLF + 1)..(pos - 1) : IsCountedDA(input[i]) })
        /\ LastLH > 0 =>
             files_coverage[current_file].lines_hit =
                 ParseInt(ValueOf(input[LastLH]))
                 + Cardinality({ i \in (LastLH + 1)..(pos - 1) : IsHitDA(input[i]) })

\* A block with a DA: record before its LF: record and one after it.
C1_Witness ==
    /\ AtBlockEnd
    /\ LastLF > 0
    /\ \E i \in (BlockStart + 1)..(LastLF - 1) : IsCountedDA(input[i])
    /\ \E i \in (LastLF + 1)..(pos - 1) : IsCountedDA(input[i])

\* C2: processing SF:<path> leaves an entry for <path> with both counts 0,
\* makes <path> the current file, leaves the entries of all other paths
\* unchanged; and no step ever removes an entry.
C2_SFResetsEntry ==
    [][ /\ DOMAIN files_coverage \subseteq DOMAIN files_coverage'
        /\ (Parsing /\ IsSF(input[pos])) =>
              LET path == ValueOf(input[pos])
              IN  /\ path \in DOMAIN files_coverage'
                  /\ files_coverage'[path] = [lines_found |-> 0, lines_hit |-> 0]
                  /\ current_file' = path
                  /\ \A p \in DOMAIN files_coverage \ {path} :
                        files_coverage'[p] = files_coverage[p]
                  /\ DOMAIN files_coverage' = DOMAIN files_coverage \cup {path}
      ]_vars

\* A second SF: record for a path whose entry had been given counts.
C2_Witness ==
    /\ pc = "parse"
    /\ pos = 4
    /\ IsSF(input[1]) /\ IsLF(input[2]) /\ IsSF(input[3])
    /\ ValueOf(input[1]) = ValueOf(input[3])
    /\ files_coverage[current_file] = [lines_found |-> 0, lines_hit |-> 0]

\* C3 (as stated): while a file is open, a DA: record with at least 2 fields
\* adds exactly 1 to the current file's lines_found and 1 to its lines_hit
\* iff the hit count is > 0; a DA: record with fewer fields changes nothing;
\* the other entries are unchanged.
C3_DACounts ==
    [][ (Parsing /\ current_file # None /\ IsDA(input[pos])) =>
           /\ DOMAIN files_coverage' = DOMAIN files_coverage
           /\ \A p \in DOMAIN files_coverage \ {current_file} :
                 files_coverage'[p] = files_coverage[p]
           /\ IF IsCountedDA(input[pos])
              THEN /\ files_coverage'[current_file].lines_found =
                         files_coverage[current_file].lines_found + 1
                   /\ files_coverage'[current_file].lines_hit =
                         files_coverage[current_file].lines_hit
                         + (IF IsHitDA(input[pos]) THEN 1 ELSE 0)
              ELSE files_coverage' = files_coverage
      ]_vars

\* A record that needs an open file: DA:, LF: or LH:.
IsCountRecord(l) == IsDA(l) \/ IsLF(l) \/ IsLH(l)

\* C4 (as stated): every DA:, LF: or LH: record processed while no SF:
\* record has been seen aborts the run at that record.
C4_AllAbortBeforeSF ==
    [][ (Parsing /\ current_file = None /\ IsCountRecord(input[pos])) =>
           (pc' = "aborted" /\ error' # "none" /\ pos' = pos)
      ]_vars

\* C4 (amended): every LF: or LH: record, and every DA: record with at least
\* 2 fields, processed while no SF: record has been seen aborts the run at
\* that record; a DA: record with fewer than 2 fields is skipped there, as
\* it is anywhere else.
C4_AbortBeforeSFExceptShortDA ==
    [][ (Parsing /\ current_file = None /\ IsCountRecord(input[pos])) =>
           IF IsDA(input[pos]) /\ ~IsCountedDA(input[pos])
           THEN /\ pc' = "parse" /\ error' = "none" /\ pos' = pos + 1
                /\ files_coverage' = files_coverage
           ELSE /\ pc' = "aborted" /\ error' \in {"ValueError", "KeyError"}
                /\ pos' = pos
                /\ files_coverage' = files_coverage
      ]_vars

\* A short DA: record was skipped before any SF:, then a record aborted the
\* run on the absent entry.
C4_Witness ==
    /\ pc = "aborted"
    /\ error = "KeyError"
    /\ current_file = None
    /\ pos = 2
    /\ IsDA(input[1]) /\ ~IsCountedDA(input[1])

\* C5: nothing is printed in a run that ends in a fault, and the first line
\* is printed only after the last input line has been parsed.
C5_NoOutputBeforeParsed ==
    /\ pc = "aborted" => output = << >>
    /\ output # << >> =>
          /\ pc \in {"files", "done"}
          /\ error = "none"
          /\ file_exists
          /\ pos = Len(input) + 1

\* A run that aborted on a record after it had counted lines of a file.
C5_Witness ==
    /\ pc = "aborted"
    /\ error = "ValueError"
    /\ pos > 2
    /\ \E p \in DOMAIN files_coverage : files_coverage[p].lines_found > 0
    /\ output = << >>

\* Every DA:, LF: and LH: record of the input comes after some SF: record.
AllRecordsAfterSF ==
    \A i \in 1..Len(input) :
        IsCountRecord(input[i]) => \E j \in 1..(i - 1) : IsSF(input[j])

\* C6 (as stated): if the file exists and every DA:, LF:, LH: record comes
\* after some SF: record, the run never aborts.
C6_NeverAborts ==
    (file_exists /\ AllRecordsAfterSF) => pc # "aborted"

\* Sum of f(p) over the paths p of the set S.
RECURSIVE SetSum(_, _)
SetSum(S, f) ==
    IF S = {} THEN 0
    ELSE LET p == CHOOSE q \in S : TRUE
         IN  f[p] + SetSum(S \ {p}, f)

FoundOf == [p \in DOMAIN files_coverage |-> files_coverage[p].lines_found]
HitOf == [p \in DOMAIN files_coverage |-> files_coverage[p].lines_hit]

\* The entries the report lists.
Listed == { p \in DOMAIN files_coverage : files_coverage[p].lines_found > 0 }

\* Indices of the output lines that name a file.
PathLines == { i \in 1..Len(output) : output[i].kind = "path" }

Parsed == pc \in {"header", "files", "done"}

\* C7: the totals are the sums over all entries, those with lines_found = 0
\* included; the finished report lists exactly the entries with
\* lines_found > 0, each once, with its counts.
C7_TotalsAllListingPositive ==
    /\ Parsed =>
          /\ total_lines_found = SetSum(DOMAIN files_coverage, FoundOf)
          /\ total_lines_hit = SetSum(DOMAIN files_coverage, HitOf)
    /\ pc = "done" =>
          /\ { output[i].path : i \in PathLines } = Listed
          /\ Cardinality(PathLines) = Cardinality(Listed)
          /\ \A i \in PathLines :
                /\ output[i + 1].kind = "lines"
                /\ output[i + 1].found = files_coverage[output[i].path].lines_found
                /\ output[i + 1].hit = files_coverage[output[i].path].lines_hit
          /\ Cardinality({ i \in 1..Len(output) : output[i].kind = "lines" })
                = Cardinality(Listed)

\* A finished report with a listed entry and an entry with lines_found = 0
\* whose lines_hit is counted in the total.
C7_Witness ==
    /\ pc = "done"
    /\ Listed # {}
    /\ \E p \in DOMAIN files_coverage :
          files_coverage[p].lines_found = 0 /\ files_coverage[p].lines_hit > 0
    /\ total_lines_hit > 0

\* C8: the per-file blocks appear in strictly increasing lexicographic order
\* of path, whatever the order of the SF: records: the k-th path printed is
\* the k-th smallest listed path of the mapping.
C8_SortedByPath ==
    /\ \A i, j \in PathLines : i < j => LexLess(output[i].path, output[j].path)
    /\ pc = "done" =>
          LET paths == [k \in 1..Cardinality(PathLines) |-> output[2 * k + 1].path]
          IN  /\ Len(paths) = Cardinality(Listed)
              /\ \A k \in 1..Len(paths) :
                    /\ 2 * k + 1 \in PathLines
                    /\ paths[k] \in Listed
                    /\ Cardinality({ q \in Listed : LexLess(q, paths[k]) }) = k - 1

\* A finished report of two listed files whose SF: records came in
\* descending order of path.
C8_Witness ==
    /\ pc = "done"
    /\ Len(key_order) >= 2
    /\ LexLess(key_order[2], key_order[1])
    /\ key_order[1] \in Listed
    /\ key_order[2] \in Listed

\* C9: a report with no file entry is exactly the title, two separators of
\* 80 "=" and "No coverage data found"; the last line is "No coverage data
\* found" exactly when total_lines_found is not > 0, else a total line.
C9_FinalLine ==
    pc = "done" =>
        /\ DOMAIN files_coverage = {} =>
              output = << [kind |-> "text", text |-> "Test Coverage Report"],
                          [kind |-> "text", text |-> "================================================================================"],
                          [kind |-> "text", text |-> "================================================================================"],
                          [kind |-> "text", text |-> "No coverage data found"] >>
        /\ (output[Len(output)] = [kind |-> "text", text |-> "No coverage data found"])
              <=> ~(total_lines_found > 0)
        /\ (output[Len(output)].kind = "total") <=> (total_lines_found > 0)

\* A finished report of an input that has lines but no SF: record.
C9_Witness ==
    /\ pc = "done"
    /\ Len(input) > 0
    /\ DOMAIN files_coverage = {}
    /\ Len(output) = 4

\* The input has no LF: and no LH: record.
NoSummaryRecords == \A i \in 1..Len(input) : ~IsLF(input[i]) /\ ~IsLH(input[i])

EntriesOrdered ==
    \A p \in DOMAIN files_coverage :
        /\ 0 <= files_coverage[p].lines_hit
        /\ files_coverage[p].lines_hit <= files_coverage[p].lines_found

\* C10: while parsing an input without LF: and LH: records every entry has
\* 0 <= lines_hit <= lines_found, and so have the totals; the only step that
\* can break this is the processing of an LF: or LH: record.
C10_HitAtMostFound ==
    /\ [](NoSummaryRecords =>
            /\ EntriesOrdered
            /\ 0 <= total_lines_hit /\ total_lines_hit <= total_lines_found)
    /\ [][ (EntriesOrdered /\ ~EntriesOrdered') =>
              (Parsing /\ (IsLF(input[pos]) \/ IsLH(input[pos]))) ]_vars

\* A finished run without LF:/LH: records that counted a hit line and a
\* line that was not hit.
C10_Witness ==
    /\ pc = "done"
    /\ NoSummaryRecords
    /\ total_lines_hit > 0
    /\ total_lines_hit < total_lines_found

====
